---- MODULE Spec2Model ----
(***************************************************************************)
(* Model of the Lodgify booking dashboard (src/bookings.js): the App       *)
(* component's state, fetchBookings, the date-range inputs and the         *)
(* processedData memo (filter + KPI aggregation + chart series).           *)
(*                                                                         *)
(* JavaScript numbers are modelled as exact extended rationals             *)
(* [n |-> numerator, d |-> denominator]: d > 0 is a finite value in        *)
(* lowest terms, d = 0 is NaN (n = 0), +Infinity (n = 1) or -Infinity      *)
(* (n = -1).  Rounding of IEEE doubles is not modelled.                    *)
(* Time values are counted in hours since 2024-01-01T00:00Z instead of     *)
(* milliseconds since 1970; differences, comparisons and calendar fields   *)
(* do not depend on the origin.                                            *)
(***************************************************************************)
EXTENDS Integers, Sequences, FiniteSets, TLC

\* ------------------------------------------------------------------------
\* Bounds of the model
\* ------------------------------------------------------------------------

\* Longest items array the upstream answers with.
MaxLen == 2

\* ------------------------------------------------------------------------
\* JavaScript numbers
\* ------------------------------------------------------------------------

Abs(x) == IF x < 0 THEN -x ELSE x

Sign(x) == IF x < 0 THEN -1 ELSE IF x > 0 THEN 1 ELSE 0

RECURSIVE GCD(_, _)
GCD(a, b) == IF b = 0 THEN a ELSE GCD(b, a % b)

\* The number n/d in normal form (d = 0 gives NaN or an infinity).
Num(n, d) ==
    IF d = 0 THEN [n |-> Sign(n), d |-> 0]
    ELSE LET g == GCD(Abs(n), Abs(d))
             s == IF d < 0 THEN -1 ELSE 1
         IN  [n |-> (s * n) \div g, d |-> (s * d) \div g]

\* The integer k as a number.
Whole(k) == [n |-> k, d |-> 1]

NaN == [n |-> 0, d |-> 0]

IsNaN(a) == a.d = 0 /\ a.n = 0

IsFinite(a) == a.d > 0

NumNeg(a) == [n |-> -a.n, d |-> a.d]

\* a + b
NumAdd(a, b) ==
    IF IsNaN(a) \/ IsNaN(b) THEN NaN
    ELSE IF ~IsFinite(a) /\ ~IsFinite(b) THEN (IF a.n = b.n THEN a ELSE NaN)
    ELSE IF ~IsFinite(a) THEN a
    ELSE IF ~IsFinite(b) THEN b
    ELSE Num(a.n * b.d + b.n * a.d, a.d * b.d)

\* a - b
NumSub(a, b) == NumAdd(a, NumNeg(b))

\* a * b
NumMul(a, b) ==
    IF IsNaN(a) \/ IsNaN(b) THEN NaN
    ELSE IF ~IsFinite(a) \/ ~IsFinite(b)
         THEN [n |-> Sign(a.n) * Sign(b.n), d |-> 0]
    ELSE Num(a.n * b.n, a.d * b.d)

\* a / b (x / 0 is NaN or an infinity, never an exception)
NumDiv(a, b) ==
    IF IsNaN(a) \/ IsNaN(b) THEN NaN
    ELSE IF ~IsFinite(a) /\ ~IsFinite(b) THEN NaN
    ELSE IF ~IsFinite(a) THEN [n |-> a.n * (IF b.n < 0 THEN -1 ELSE 1), d |-> 0]
    ELSE IF ~IsFinite(b) THEN Whole(0)
    ELSE Num(a.n * b.d, a.d * b.n)

\* a > b, a >= b, a <= b: every comparison with NaN is false
NumGT(a, b) == ~IsNaN(a) /\ ~IsNaN(b) /\ a.n * b.d > b.n * a.d

NumGE(a, b) == ~IsNaN(a) /\ ~IsNaN(b) /\ a.n * b.d >= b.n * a.d

NumLE(a, b) == NumGE(b, a)

\* ToBoolean of a number: 0 and NaN are falsy
Truthy(a) == ~IsNaN(a) /\ a.n # 0

\* a || b on numbers
OrElse(a, b) == IF Truthy(a) THEN a ELSE b

\* ------------------------------------------------------------------------
\* Date strings and new Date(...)
\* ------------------------------------------------------------------------
\* A string that is handed to new Date(): form "date" is 'YYYY-MM-DD'
\* (parsed as UTC midnight), form "utc" is 'YYYY-MM-DDTHH:00:00Z', form
\* "empty" is '' and form "bad" is any text Date cannot parse.

DateOnly(y, m, d) == [form |-> "date", y |-> y, m |-> m, d |-> d, h |-> 0]

DateTimeZ(y, m, d, h) == [form |-> "utc", y |-> y, m |-> m, d |-> d, h |-> h]

EmptyString == [form |-> "empty", y |-> 0, m |-> 0, d |-> 0, h |-> 0]

BadDate == [form |-> "bad", y |-> 0, m |-> 0, d |-> 0, h |-> 0]

\* Hours in a day: the divisor (1000 * 3600 * 24) ms in the model's unit.
DayLength == 24

\* The years the model's calendar covers.
Years == 2023..2025

IsLeap(y) == (y % 4 = 0 /\ y % 100 # 0) \/ y % 400 = 0

DaysInMonth(y, m) ==
    IF m = 2 THEN (IF IsLeap(y) THEN 29 ELSE 28)
    ELSE IF m \in {4, 6, 9, 11} THEN 30 ELSE 31

\* Days of year y before its month m.
DaysBeforeMonth(y, m) ==
    <<0, 31, 59, 90, 120, 151, 181, 212, 243, 273, 304, 334>>[m]
        + (IF m > 2 /\ IsLeap(y) THEN 1 ELSE 0)

RECURSIVE DaysBeforeYear(_)
DaysBeforeYear(y) ==
    IF y = 2024 THEN 0
    ELSE IF y > 2024 THEN DaysBeforeYear(y - 1) + DaysBeforeMonth(y - 1, 12) + 31
    ELSE DaysBeforeYear(y + 1) - (DaysBeforeMonth(y, 12) + 31)

\* Day number of a calendar date, 2024-01-01 being day 0.
DayNumber(y, m, d) == DaysBeforeYear(y) + DaysBeforeMonth(y, m) + d - 1

\* new Date(s).getTime(): the time value of a date string, NaN when the
\* string does not parse (Invalid Date).
NewDate(s) ==
    IF s.form \in {"date", "utc"}
    THEN Whole(DayNumber(s.y, s.m, s.d) * DayLength + s.h)
    ELSE NaN

RECURSIVE MonthOfDay(_, _, _)
\* The month (1..12) holding day number `day`, searching from month m of
\* year y onwards.
MonthOfDay(day, y, m) ==
    IF day < DayNumber(y, m, 1) + DaysInMonth(y, m) THEN m
    ELSE IF m = 12 THEN MonthOfDay(day, y + 1, 1)
    ELSE MonthOfDay(day, y, m + 1)

\* Date.prototype.getMonth(): the month (0..11) of the LOCAL calendar date
\* of the time value t in a zone tz hours east of UTC; NaN for Invalid Date.
GetMonth(t, zone) ==
    IF IsNaN(t) THEN NaN
    ELSE LET localDay == (t.n + zone) \div DayLength
             firstYear == CHOOSE y \in Years : \A z \in Years : y <= z
         IN  Whole(MonthOfDay(localDay, firstYear, 1) - 1)

\* ------------------------------------------------------------------------
\* Plain JavaScript objects used as dictionaries
\* ------------------------------------------------------------------------
\* An object is the sequence of its own properties [key, value] in creation
\* order.  A key is an array index (a canonical numeric string such as "3")
\* or any other string.

IndexKey(i) == [index |-> TRUE, i |-> i, s |-> ""]

StringKey(str) == [index |-> FALSE, i |-> 0, s |-> str]

\* Source labels that are canonical numeric strings, with their value.
ArrayIndexStrings == ("7" :> 7) @@ ("12" :> 12)

\* ToPropertyKey of a string.
KeyOfString(str) ==
    IF str \in DOMAIN ArrayIndexStrings THEN IndexKey(ArrayIndexStrings[str])
    ELSE StringKey(str)

\* ToPropertyKey of a number that is a month index or NaN.
KeyOfNumber(a) == IF IsNaN(a) THEN StringKey("NaN") ELSE IndexKey(a.n)

ObjHas(obj, key) == \E i \in 1..Len(obj) : obj[i].key = key

ObjGet(obj, key) == obj[CHOOSE i \in 1..Len(obj) : obj[i].key = key].value

\* obj[key] = value
ObjSet(obj, key, value) ==
    IF ObjHas(obj, key)
    THEN [i \in 1..Len(obj) |->
            IF obj[i].key = key THEN [key |-> key, value |-> value] ELSE obj[i]]
    ELSE Append(obj, [key |-> key, value |-> value])

RECURSIVE IndexValuesAscending(_, _)
IndexValuesAscending(obj, indices) ==
    IF indices = {} THEN <<>>
    ELSE LET least == CHOOSE i \in indices : \A j \in indices : i <= j
         IN  <<ObjGet(obj, IndexKey(least))>>
                \o IndexValuesAscending(obj, indices \ {least})

\* Object.values(obj): the values of the array-index keys in ascending
\* numeric order, then those of the string keys in creation order
\* (OrdinaryOwnPropertyKeys).
ObjectValues(obj) ==
    LET indices == {obj[i].key.i : i \in {j \in 1..Len(obj) : obj[j].key.index}}
        strings == SelectSeq(obj, LAMBDA p : ~p.key.index)
    IN  IndexValuesAscending(obj, indices)
            \o [i \in 1..Len(strings) |-> strings[i].value]

\* ------------------------------------------------------------------------
\* Array.prototype.sort with a comparator
\* ------------------------------------------------------------------------

\* (a, b) => a.monthIndex - b.monthIndex
MonthComparator(a, b) == NumSub(a.monthIndex, b.monthIndex)

\* Insert x behind the elements of the sorted run that do not compare
\* greater than x (a comparator result of NaN counts as 0).
InsertByMonth(run, x) ==
    LET greater(i) == NumGT(MonthComparator(run[i], x), Whole(0))
        k == CHOOSE j \in 0..Len(run) :
                /\ \A i \in (j + 1)..Len(run) : greater(i)
                /\ j > 0 => ~greater(j)
    IN  SubSeq(run, 1, k) \o <<x>> \o SubSeq(run, k + 1, Len(run))

RECURSIVE SortByMonth(_, _)
\* The stable sort of the first k elements of arr.
SortByMonth(arr, k) ==
    IF k = 0 THEN <<>> ELSE InsertByMonth(SortByMonth(arr, k - 1), arr[k])

\* ------------------------------------------------------------------------
\* Booking records
\* ------------------------------------------------------------------------
\* A booking is a record with the fields id, arrival, departure and status
\* and, when the JSON carries them, total_amount, source and creation_date.
\* The guest field plays no part in filtering or aggregation.

MOCK_BOOKINGS ==
    << [id |-> 1, arrival |-> DateOnly(2024, 1, 15), departure |-> DateOnly(2024, 1, 20),
        total_amount |-> Whole(500), source |-> "Airbnb", status |-> "Booked",
        creation_date |-> DateTimeZ(2023, 12, 15, 10)],
       [id |-> 2, arrival |-> DateOnly(2024, 2, 10), departure |-> DateOnly(2024, 2, 15),
        total_amount |-> Whole(650), source |-> "Booking.com", status |-> "Booked",
        creation_date |-> DateTimeZ(2024, 1, 10, 10)],
       [id |-> 3, arrival |-> DateOnly(2024, 2, 20), departure |-> DateOnly(2024, 2, 25),
        total_amount |-> Whole(550), source |-> "Direct", status |-> "Booked",
        creation_date |-> DateTimeZ(2024, 2, 1, 10)],
       [id |-> 4, arrival |-> DateOnly(2024, 3, 5), departure |-> DateOnly(2024, 3, 10),
        total_amount |-> Whole(700), source |-> "Airbnb", status |-> "Cancelled",
        creation_date |-> DateTimeZ(2024, 2, 15, 10)] >>

\* ------------------------------------------------------------------------
\* processedData: the date-range filter
\* ------------------------------------------------------------------------

\* KeepBooking with exclusive bounds (> and < for >= and <=).
KeepBookingExclusive(booking, sd, ed) ==
    LET arrival == NewDate(booking.arrival)
        noStart == sd.form = "empty"
        noEnd == ed.form = "empty"
    IN  IF noStart /\ noEnd THEN TRUE
        ELSE IF ~noStart /\ noEnd THEN NumGT(arrival, NewDate(sd))
        ELSE IF noStart /\ ~noEnd THEN NumGT(NewDate(ed), arrival)
        ELSE NumGT(arrival, NewDate(sd)) /\ NumGT(NewDate(ed), arrival)

\* KeepBooking written with negated comparisons (!(arrival < start) for
\* arrival >= start), which an Invalid Date passes.
KeepBookingNotOutside(booking, sd, ed) ==
    LET arrival == NewDate(booking.arrival)
        noStart == sd.form = "empty"
        noEnd == ed.form = "empty"
    IN  IF noStart /\ noEnd THEN TRUE
        ELSE IF ~noStart /\ noEnd THEN ~NumGT(NewDate(sd), arrival)
        ELSE IF noStart /\ ~noEnd THEN ~NumGT(arrival, NewDate(ed))
        ELSE ~NumGT(NewDate(sd), arrival) /\ ~NumGT(arrival, NewDate(ed))

\* The callback of allBookings.filter: is the booking kept?
KeepBooking(booking, sd, ed) ==
    LET arrival == NewDate(booking.arrival)
        noStart == sd.form = "empty"
        noEnd == ed.form = "empty"
    IN  IF noStart /\ noEnd THEN TRUE
        ELSE IF ~noStart /\ noEnd THEN NumGE(arrival, NewDate(sd))
        ELSE IF noStart /\ ~noEnd THEN NumLE(arrival, NewDate(ed))
        ELSE NumGE(arrival, NewDate(sd)) /\ NumLE(arrival, NewDate(ed))

\* FilteredBookings by a loop that starts at index 1 and so never looks at
\* the first booking.
FilteredBookingsFromSecond(bookings, sd, ed) ==
    IF bookings = <<>> THEN <<>>
    ELSE SelectSeq(Tail(bookings), LAMBDA booking : KeepBooking(booking, sd, ed))

FilteredBookings(bookings, sd, ed) ==
    SelectSeq(bookings, LAMBDA booking : KeepBooking(booking, sd, ed))

ConfirmedBookings(filtered) == SelectSeq(filtered, LAMBDA b : b.status = "Booked")

CancelledBookings(filtered) == SelectSeq(filtered, LAMBDA b : b.status = "Cancelled")

\* ------------------------------------------------------------------------
\* processedData: the KPIs
\* ------------------------------------------------------------------------

\* AmountOrZero without the `|| 0`: a missing amount is undefined, and
\* acc + undefined is NaN.
AmountNoDefault(b) ==
    IF "total_amount" \in DOMAIN b THEN b.total_amount ELSE NaN

\* (b.total_amount || 0)
AmountOrZero(b) ==
    IF "total_amount" \in DOMAIN b THEN OrElse(b.total_amount, Whole(0)) ELSE Whole(0)

RECURSIVE ReduceRevenue(_, _)
ReduceRevenue(confirmed, k) ==
    IF k = 0 THEN Whole(0)
    ELSE NumAdd(ReduceRevenue(confirmed, k - 1), AmountOrZero(confirmed[k]))

TotalRevenue(confirmed) == ReduceRevenue(confirmed, Len(confirmed))

\* NightsOrZero with negative stays clamped to 0.
NightsClamped(b) ==
    LET nights == NumDiv(NumSub(NewDate(b.departure), NewDate(b.arrival)),
                         Whole(DayLength))
    IN  IF NumGT(nights, Whole(0)) THEN nights ELSE Whole(0)

\* ((new Date(b.departure) - new Date(b.arrival)) / (1000 * 3600 * 24) || 0)
NightsOrZero(b) ==
    OrElse(NumDiv(NumSub(NewDate(b.departure), NewDate(b.arrival)), Whole(DayLength)),
           Whole(0))

RECURSIVE ReduceNights(_, _)
ReduceNights(confirmed, k) ==
    IF k = 0 THEN Whole(0)
    ELSE NumAdd(ReduceNights(confirmed, k - 1), NightsOrZero(confirmed[k]))

TotalNights(confirmed) == ReduceNights(confirmed, Len(confirmed))

AvgBookingValue(totalRevenue, totalBookings) ==
    IF NumGT(totalBookings, Whole(0)) THEN NumDiv(totalRevenue, totalBookings)
    ELSE Whole(0)

\* AvgNightlyRate testing totalNights for truthiness instead of > 0.
AvgNightlyRateNonZero(totalRevenue, totalNights) ==
    IF Truthy(totalNights) THEN NumDiv(totalRevenue, totalNights)
    ELSE Whole(0)

AvgNightlyRate(totalRevenue, totalNights) ==
    IF NumGT(totalNights, Whole(0)) THEN NumDiv(totalRevenue, totalNights)
    ELSE Whole(0)

AvgLengthOfStay(totalNights, totalBookings) ==
    IF NumGT(totalBookings, Whole(0)) THEN NumDiv(totalNights, totalBookings)
    ELSE Whole(0)

\* LeadTimeStep without the floor at 0.
LeadTimeStepUnclamped(acc, b) ==
    IF "creation_date" \notin DOMAIN b \/ b.creation_date.form = "empty" THEN acc
    ELSE NumAdd(acc, NumDiv(NumSub(NewDate(b.arrival), NewDate(b.creation_date)),
                            Whole(DayLength)))

\* One step of the totalLeadTime reducer.
LeadTimeStep(acc, b) ==
    IF "creation_date" \notin DOMAIN b \/ b.creation_date.form = "empty" THEN acc
    ELSE LET leadDays == NumDiv(NumSub(NewDate(b.arrival), NewDate(b.creation_date)),
                                Whole(DayLength))
         IN  NumAdd(acc, IF NumGT(leadDays, Whole(0)) THEN leadDays ELSE Whole(0))

RECURSIVE ReduceLeadTime(_, _)
ReduceLeadTime(confirmed, k) ==
    IF k = 0 THEN Whole(0)
    ELSE LeadTimeStep(ReduceLeadTime(confirmed, k - 1), confirmed[k])

TotalLeadTime(confirmed) == ReduceLeadTime(confirmed, Len(confirmed))

AvgLeadTime(totalLeadTime, totalBookings) ==
    IF NumGT(totalBookings, Whole(0)) THEN NumDiv(totalLeadTime, totalBookings)
    ELSE Whole(0)

\* CancellationRate over the confirmed and cancelled records only.
CancellationRateOfDecided(cancelled, filtered) ==
    LET decided == Len(ConfirmedBookings(filtered)) + Len(cancelled)
    IN  IF decided > 0
        THEN NumMul(NumDiv(Whole(Len(cancelled)), Whole(decided)), Whole(100))
        ELSE Whole(0)

\* CancellationRate without the empty-set fallback.
CancellationRateUnguarded(cancelled, filtered) ==
    NumMul(NumDiv(Whole(Len(cancelled)), Whole(Len(filtered))), Whole(100))

CancellationRate(cancelled, filtered) ==
    IF Len(filtered) > 0
    THEN NumMul(NumDiv(Whole(Len(cancelled)), Whole(Len(filtered))), Whole(100))
    ELSE Whole(0)

\* ------------------------------------------------------------------------
\* processedData: the chart series
\* ------------------------------------------------------------------------

monthNames ==
    <<"Jan", "Feb", "Mar", "Apr", "May", "Jun", "Jul", "Aug", "Sep", "Oct", "Nov", "Dec">>

\* monthNames[month], undefined when month is NaN
MonthName(month) == IF IsNaN(month) THEN "undefined" ELSE monthNames[month.n + 1]

\* (booking.source || 'Unknown')
SourceOrUnknown(booking) ==
    IF "source" \in DOMAIN booking /\ booking.source # "" THEN booking.source
    ELSE "Unknown"

RECURSIVE MonthlyData(_, _, _)
\* monthlyData after the forEach has visited the first k confirmed bookings.
MonthlyData(confirmed, k, zone) ==
    IF k = 0 THEN <<>>
    ELSE LET before == MonthlyData(confirmed, k - 1, zone)
             month == GetMonth(NewDate(confirmed[k].arrival), zone)
             key == KeyOfNumber(month)
             entry == IF ObjHas(before, key) THEN ObjGet(before, key)
                      ELSE [name |-> MonthName(month), monthIndex |-> month,
                            bookings |-> Whole(0)]
         IN  ObjSet(before, key,
                    [entry EXCEPT !.bookings = NumAdd(entry.bookings, Whole(1))])

RECURSIVE ChannelData(_, _)
\* channelData after the forEach has visited the first k confirmed bookings.
ChannelData(confirmed, k) ==
    IF k = 0 THEN <<>>
    ELSE LET before == ChannelData(confirmed, k - 1)
             source == SourceOrUnknown(confirmed[k])
             key == KeyOfString(source)
             entry == IF ObjHas(before, key) THEN ObjGet(before, key)
                      ELSE [name |-> source, revenue |-> Whole(0)]
         IN  ObjSet(before, key,
                    [entry EXCEPT !.revenue = NumAdd(entry.revenue,
                                                      AmountOrZero(confirmed[k]))])

BookingsByMonth(confirmed, zone) ==
    LET values == ObjectValues(MonthlyData(confirmed, Len(confirmed), zone))
    IN  SortByMonth(values, Len(values))

RevenueByChannel(confirmed) == ObjectValues(ChannelData(confirmed, Len(confirmed)))

\* The value of the useMemo callback for the given dependencies, in a
\* browser whose local zone is `zone` hours east of UTC.
\* (allBookings is always an array, so the `!allBookings` exit is never taken.)
ProcessedData(bookings, sd, ed, zone) ==
    LET filteredBookings == FilteredBookings(bookings, sd, ed)
        confirmedBookings == ConfirmedBookings(filteredBookings)
        cancelledBookings == CancelledBookings(filteredBookings)
        totalRevenue == TotalRevenue(confirmedBookings)
        totalBookings == Whole(Len(confirmedBookings))
        totalNights == TotalNights(confirmedBookings)
        totalLeadTime == TotalLeadTime(confirmedBookings)
    IN  [ totalRevenue |-> totalRevenue,
          totalBookings |-> totalBookings,
          avgBookingValue |-> AvgBookingValue(totalRevenue, totalBookings),
          avgNightlyRate |-> AvgNightlyRate(totalRevenue, totalNights),
          bookingsByMonth |-> BookingsByMonth(confirmedBookings, zone),
          revenueByChannel |-> RevenueByChannel(confirmedBookings),
          totalNights |-> totalNights,
          avgLengthOfStay |-> AvgLengthOfStay(totalNights, totalBookings),
          avgLeadTime |-> AvgLeadTime(totalLeadTime, totalBookings),
          cancellationRate |-> CancellationRate(cancelledBookings, filteredBookings),
          filteredBookings |-> filteredBookings ]

\* ------------------------------------------------------------------------
\* The bookings table
\* ------------------------------------------------------------------------

\* (a, b) => new Date(a.arrival) - new Date(b.arrival)
ArrivalComparator(a, b) == NumSub(NewDate(a.arrival), NewDate(b.arrival))

\* Insert x behind the elements of the sorted run that do not compare
\* greater than x (a comparator result of NaN counts as 0).
InsertByArrival(run, x) ==
    LET greater(i) == NumGT(ArrivalComparator(run[i], x), Whole(0))
        k == CHOOSE j \in 0..Len(run) :
                /\ \A i \in (j + 1)..Len(run) : greater(i)
                /\ j > 0 => ~greater(j)
    IN  SubSeq(run, 1, k) \o <<x>> \o SubSeq(run, k + 1, Len(run))

RECURSIVE SortByArrival(_, _)
\* The stable sort of the first k elements of arr.
SortByArrival(arr, k) ==
    IF k = 0 THEN <<>> ELSE InsertByArrival(SortByArrival(arr, k - 1), arr[k])

\* The table body sorting the filtered array itself, without slice().
SortedInPlace(filteredBookings) ==
    LET sorted == SortByArrival(filteredBookings, Len(filteredBookings))
    IN  [filteredBookings |-> sorted, rows |-> sorted]

\* processedData.filteredBookings.slice().sort(...): the rows of the table
\* and the filtered array as the expression leaves it.  sort works in place
\* on the copy that slice() made, so the filtered array keeps its order.
SortedCopy(filteredBookings) ==
    [filteredBookings |-> filteredBookings,
     rows |-> SortByArrival(filteredBookings, Len(filteredBookings))]

\* Is the bookings table part of the render?
ShowsTable(view, loading, bookings) ==
    view = "bookings" /\ ~(loading /\ Len(bookings) = 0)

\* ------------------------------------------------------------------------
\* Inputs of the model
\* ------------------------------------------------------------------------

\* Bookings the upstream may answer with: three of the sample records and
\* records with a missing, empty or zero amount, source or creation date, a
\* departure before or on the arrival, a time of day, an unparseable date, a
\* numeric source label and a status that is neither 'Booked' nor 'Cancelled'.
Pool ==
    { MOCK_BOOKINGS[1], MOCK_BOOKINGS[2], MOCK_BOOKINGS[4],
      [id |-> 5, arrival |-> DateOnly(2024, 2, 1), departure |-> DateOnly(2024, 1, 30),
       total_amount |-> Whole(80), status |-> "Booked",
       creation_date |-> DateTimeZ(2024, 2, 3, 10)],
      [id |-> 6, arrival |-> DateTimeZ(2024, 2, 28, 15), departure |-> DateOnly(2024, 3, 1),
       total_amount |-> Whole(120), source |-> "7", status |-> "Booked",
       creation_date |-> EmptyString],
      [id |-> 7, arrival |-> BadDate, departure |-> DateOnly(2024, 3, 10),
       source |-> "Direct", status |-> "Booked"],
      [id |-> 8, arrival |-> DateOnly(2024, 1, 15), departure |-> DateOnly(2024, 1, 16),
       total_amount |-> Whole(300), source |-> "Airbnb", status |-> "Tentative",
       creation_date |-> DateTimeZ(2024, 1, 1, 0)],
      [id |-> 9, arrival |-> DateOnly(2024, 3, 5), departure |-> DateOnly(2024, 3, 5),
       total_amount |-> Whole(0), source |-> "", status |-> "Booked",
       creation_date |-> BadDate] }

BoundedSeq(S, n) == UNION {[1..k -> S] : k \in 0..n}

\* JSON bodies of a 2xx answer of /api/bookings: with an items array, or
\* without one.
ResponseData ==
    {[count |-> Len(items), items |-> items] : items \in BoundedSeq(Pool, MaxLen)}
        \cup {[count |-> 0]}

\* Values entered in the two <input type="date"> fields.
StartDateInputs == {EmptyString, DateOnly(2024, 2, 1)}

EndDateInputs == {EmptyString, DateOnly(2024, 2, 28)}

\* Offsets of the browser's local time from UTC, in hours.
TimeZones == {-5, 0}

\* err.message of a failed retrieval: the proxy's error text, or fetch's own.
ErrorMessages == {"API key is not configured on the server.", "Failed to fetch"}

\* ------------------------------------------------------------------------
\* State of the App component and its environment
\* ------------------------------------------------------------------------

VARIABLES
    allBookings,    \* useState([])
    isLoading,      \* useState(true)
    error,          \* useState(null): Null or the parts of the warning text
    startDate,      \* useState('')
    endDate,        \* useState('')
    processedData,  \* the memoised value of the current render
    mounted,        \* has the mount effect run?
    pending,        \* number of fetchBookings calls awaiting their response
    data,           \* environment: what the upstream holds
    tz,             \* environment: the browser's zone offset in hours
    lastResponse,   \* environment: what the fetchBookings call that resumed last was given
    activeView,     \* useState('dashboard')
    tableRows,      \* the rows of the bookings table of the current render
    isGeneratingInsights,   \* useState(false)
    insights,       \* useState('')
    insightsError,  \* useState(null): Null or the parts of the message
    userQuestion,   \* useState('')
    askPending,     \* number of handleAskAI calls awaiting their response
    insightsHandler,    \* one invocation of the /api/generate-insights handler
    bookingsHandler     \* one invocation of the /api/bookings handler

\* The state of the insights panel.
askVars == <<isGeneratingInsights, insights, insightsError, userQuestion, askPending>>

\* The state of the navigation and of the bookings table.
viewVars == <<activeView, tableRows>>

\* The two serverless functions.
handlerVars == <<insightsHandler, bookingsHandler>>

vars == <<allBookings, isLoading, error, startDate, endDate, processedData,
          mounted, pending, data, tz, lastResponse, askVars, viewVars, handlerVars>>

Null == <<>>

\* The warning text built in the catch block of fetchBookings.
DetailedError(message) ==
    <<"Failed to fetch bookings from the server. This could mean the Lodgify API key is missing or incorrect in your Vercel project settings. The app is showing sample data. Error: ",
      message>>

\* data.items || []
ItemsOrEmpty(d) == IF "items" \in DOMAIN d THEN d.items ELSE <<>>

\* What a resumed fetchBookings call found: nothing yet, a 2xx response, or
\* a failure (fetch threw, or a non-2xx response) with its error text.
NoResponse == [kind |-> "none", text |-> ""]

OkResponse == [kind |-> "ok", text |-> ""]

FailedResponse(message) == [kind |-> "failed", text |-> message]

\* A handler that has not been invoked.
NotInvoked == [pc |-> "idle"]

Init ==
    /\ allBookings = <<>>
    /\ isLoading = TRUE
    /\ error = Null
    /\ startDate = EmptyString
    /\ endDate = EmptyString
    /\ mounted = FALSE
    /\ pending = 0
    /\ data \in ResponseData
    /\ tz \in TimeZones
    /\ processedData = ProcessedData(allBookings, startDate, endDate, tz)
    /\ lastResponse = NoResponse
    /\ activeView = "dashboard"
    /\ tableRows = <<>>
    /\ isGeneratingInsights = FALSE
    /\ insights = ""
    /\ insightsError = Null
    /\ userQuestion = ""
    /\ askPending = 0
    /\ insightsHandler = NotInvoked
    /\ bookingsHandler = NotInvoked

\* The render that follows a state change, given the value of the memo: it
\* draws the bookings table when the 'bookings' view is on.
RenderWith(memo) ==
    IF ShowsTable(activeView', isLoading', allBookings')
    THEN LET table == SortedCopy(memo.filteredBookings)
         IN  /\ processedData' = [memo EXCEPT !.filteredBookings = table.filteredBookings]
             /\ tableRows' = table.rows
    ELSE /\ processedData' = memo
         /\ tableRows' = <<>>

\* A render after allBookings, startDate or endDate changed recomputes the
\* memo; other renders keep the memoised value.
Render == RenderWith(ProcessedData(allBookings', startDate', endDate', tz'))

Rerender == RenderWith(processedData)

\* useEffect(() => { fetchBookings(); }, []): once, or twice when
\* React.StrictMode replays the effect; each run goes up to the await.
MountEffect(runs) ==
    /\ ~mounted
    /\ mounted' = TRUE
    /\ pending' = pending + runs
    /\ isLoading' = TRUE
    /\ error' = Null
    /\ UNCHANGED <<allBookings, startDate, endDate, data, tz>>
    /\ UNCHANGED <<lastResponse, askVars, activeView, handlerVars>>
    /\ Rerender

\* The Refresh button (disabled while isLoading): fetchBookings up to the await.
Refresh ==
    /\ mounted
    /\ ~isLoading
    /\ pending' = pending + 1
    /\ isLoading' = TRUE
    /\ error' = Null
    /\ UNCHANGED <<allBookings, startDate, endDate, mounted, data, tz>>
    /\ UNCHANGED <<lastResponse, askVars, activeView, handlerVars>>
    /\ Rerender

\* A pending fetchBookings resumes with a 2xx response.
FetchSucceeds ==
    /\ pending > 0
    /\ pending' = pending - 1
    /\ allBookings' = ItemsOrEmpty(data)
    /\ isLoading' = FALSE
    /\ lastResponse' = OkResponse
    /\ UNCHANGED <<error, startDate, endDate, mounted, data, tz>>
    /\ UNCHANGED <<askVars, activeView, handlerVars>>
    /\ Render

\* FetchFails with a catch block that reports the error but leaves the
\* booking list as it is.
FetchFailsKeepsList(message) ==
    /\ pending > 0
    /\ pending' = pending - 1
    /\ error' = DetailedError(message)
    /\ isLoading' = FALSE
    /\ lastResponse' = FailedResponse(message)
    /\ UNCHANGED <<allBookings, startDate, endDate, mounted, data, tz>>
    /\ UNCHANGED <<askVars, activeView, handlerVars>>
    /\ Rerender

\* A pending fetchBookings resumes in its catch block.
FetchFails(message) ==
    /\ pending > 0
    /\ pending' = pending - 1
    /\ error' = DetailedError(message)
    /\ allBookings' = MOCK_BOOKINGS
    /\ isLoading' = FALSE
    /\ lastResponse' = FailedResponse(message)
    /\ UNCHANGED <<startDate, endDate, mounted, data, tz>>
    /\ UNCHANGED <<askVars, activeView, handlerVars>>
    /\ Render

\* onChange of the start date input
SetStartDate(value) ==
    /\ value # startDate
    /\ startDate' = value
    /\ UNCHANGED <<allBookings, isLoading, error, endDate, mounted, pending, data, tz>>
    /\ UNCHANGED <<lastResponse, askVars, activeView, handlerVars>>
    /\ Render

\* onChange of the end date input
SetEndDate(value) ==
    /\ value # endDate
    /\ endDate' = value
    /\ UNCHANGED <<allBookings, isLoading, error, startDate, mounted, pending, data, tz>>
    /\ UNCHANGED <<lastResponse, askVars, activeView, handlerVars>>
    /\ Render

Next ==
    \/ \E runs \in 1..2 : MountEffect(runs)
    \/ Refresh
    \/ FetchSucceeds
    \/ \E message \in ErrorMessages : FetchFails(message)
    \/ \E value \in StartDateInputs : SetStartDate(value)
    \/ \E value \in EndDateInputs : SetEndDate(value)

Spec == Init /\ [][Next]_vars

\* ------------------------------------------------------------------------
\* Navigation
\* ------------------------------------------------------------------------

Views == {"dashboard", "bookings"}

\* onClick of a sidebar link: setActiveView(view)
SetActiveView(view) ==
    /\ view # activeView
    /\ activeView' = view
    /\ UNCHANGED <<allBookings, isLoading, error, startDate, endDate, mounted,
                   pending, data, tz, lastResponse, askVars, handlerVars>>
    /\ Rerender

NextView ==
    \/ \E runs \in 1..2 : MountEffect(runs)
    \/ Refresh
    \/ FetchSucceeds
    \/ \E message \in ErrorMessages : FetchFails(message)
    \/ \E value \in StartDateInputs : SetStartDate(value)
    \/ \E value \in EndDateInputs : SetEndDate(value)
    \/ \E view \in Views : SetActiveView(view)

\* The table does not read the time zone: one zone is enough here.
InitView == Init /\ tz = 0

\* The dashboard with its navigation.
SpecView == InitView /\ [][NextView]_vars

\* ------------------------------------------------------------------------
\* Serverless handlers: environment, JSON, upstream outcomes, replies
\* ------------------------------------------------------------------------

\* The variables of the React application, which no handler touches.
appVars == <<allBookings, isLoading, error, startDate, endDate, processedData,
             mounted, pending, data, tz, lastResponse>>

\* process.env: a variable that is not set is absent (undefined).
NoEnv == [name \in {} |-> ""]
EnvWith(name, value) == [n \in {name} |-> value]
Envs(name) == {NoEnv, EnvWith(name, ""), EnvWith(name, "secret")}

\* The negation of !process.env[name]: undefined and '' are both falsy.
Configured(env, name) == name \in DOMAIN env /\ env[name] # ""

\* JSON values: null, the object { error: message }, and any other
\* document, named by the text JSON.stringify gives for it.
Undefined == <<"undefined">>
JsonNull == <<"null">>
ErrorObject(message) == <<"error", message>>
Document(text) == <<"document", text>>

GeminiAnswer == "{\"candidates\":[{\"content\":{\"parts\":[{\"text\":\"Two bookings.\"}]}}]}"
GeminiNoCandidates == "{\"candidates\":[]}"
GeminiNoCandidatesSpaced == "{ \"candidates\": [ ] }"
GeminiError == "{\"error\":{\"code\":400,\"message\":\"API key not valid.\"}}"
GeminiErrorNoMessage == "{\"error\":{}}"
LodgifyEmpty == "{\"count\":0,\"items\":[]}"
LodgifyEmptySpaced == "{ \"count\": 0, \"items\": [ ] }"
LodgifyUnauthorized == "{\"error\":\"Unauthorized\"}"
BadGateway == "<html>Bad Gateway</html>"

\* JSON.parse on the texts that are JSON.
JsonValues ==
    (GeminiAnswer :> Document(GeminiAnswer))
        @@ (GeminiNoCandidates :> Document(GeminiNoCandidates))
        @@ (GeminiNoCandidatesSpaced :> Document(GeminiNoCandidates))
        @@ (GeminiError :> Document(GeminiError))
        @@ (GeminiErrorNoMessage :> Document(GeminiErrorNoMessage))
        @@ (LodgifyEmpty :> Document(LodgifyEmpty))
        @@ (LodgifyEmptySpaced :> Document(LodgifyEmpty))
        @@ (LodgifyUnauthorized :> ErrorObject("Unauthorized"))
        @@ ("null" :> JsonNull)

\* await response.json(): the parsed value, or the message of the rejection
\* (the body stream fails, or the text is not JSON).
ReadJson(response) ==
    IF ~response.readable THEN [ok |-> FALSE, value |-> Undefined, message |-> "terminated"]
    ELSE IF response.body \in DOMAIN JsonValues
    THEN [ok |-> TRUE, value |-> JsonValues[response.body], message |-> ""]
    ELSE [ok |-> FALSE, value |-> Undefined, message |-> "Unexpected token in JSON"]

\* JSON.stringify(value); the messages of the model need no escaping.
JsonStringify(value) ==
    IF value = Undefined THEN Undefined
    ELSE IF value = JsonNull THEN <<"text", "null">>
    ELSE IF value[1] = "document" THEN <<"text", value[2]>>
    ELSE <<"text", "{\"error\":\"" \o value[2] \o "\"}">>

\* data.error?.message of a parsed value other than null; "" where it is
\* undefined.
ErrorDotMessage(value) ==
    IF value = Document(GeminiError) THEN "API key not valid." ELSE ""

UpstreamStatuses == {200, 401, 503}

\* response.ok
Ok(response) == response.status \in 200..299

NoUpstream == [kind |-> "none", status |-> 0, body |-> "", readable |-> FALSE]

\* What the awaited fetch can do: reject, or resolve to a response whose
\* body may still fail to arrive.
FetchOutcomes(bodies) ==
    {[kind |-> "rejects", status |-> 0, body |-> "", readable |-> FALSE]}
        \cup {[kind |-> "response", status |-> code, body |-> b, readable |-> r] :
                 code \in UpstreamStatuses, b \in bodies, r \in BOOLEAN}

GeminiOutcomes ==
    FetchOutcomes({GeminiAnswer, GeminiNoCandidates, GeminiNoCandidatesSpaced,
                   GeminiError, GeminiErrorNoMessage, "null", BadGateway})

\* res.status(status).end(text) and res.status(status).json(value), with
\* the headers set before.
TextReply(status, headers, text) ==
    [status |-> status, headers |-> headers, body |-> <<"text", text>>]
JsonReply(status, headers, value) ==
    [status |-> status,
     headers |-> headers \cup {<<"Content-Type", "application/json">>},
     body |-> value]

\* The handler's state once invoked.
Invocation(variant, req, env, pc, fetched, responses) ==
    [pc |-> pc, variant |-> variant, req |-> req, env |-> env, fetched |-> fetched,
     response |-> NoUpstream, responses |-> responses]

\* catch (error) { res.status(500).json({ error: error.message }) }
Catch(h, message) ==
    [h EXCEPT !.pc = "done",
              !.responses = Append(@, JsonReply(500, {}, ErrorObject(message)))]

Methods == {"GET", "POST", "OPTIONS"}
AskPayload == Document("{\"contents\":[{\"parts\":[{\"text\":\"How many bookings?\"}]}]}")
InsightsRequests == {[method |-> m, body |-> b] : m \in Methods, b \in {AskPayload, Undefined}}

\* One server and no dashboard activity.
InitProxy == Init /\ tz = 0 /\ data = [count |-> 0]

\* ------------------------------------------------------------------------
\* /api/generate-insights
\* ------------------------------------------------------------------------

\* The handler without the check of GEMINI_API_KEY.
InsightsHandlerNoKeyCheck(req, env) ==
    /\ insightsHandler = NotInvoked
    /\ insightsHandler' =
          IF req.method # "POST"
          THEN Invocation("insights", req, env, "done", <<>>,
                          <<TextReply(405, {<<"Allow", "POST">>}, "Method Not Allowed")>>)
          ELSE Invocation("insights", req, env, "fetch",
                          <<[method |-> "POST", body |-> JsonStringify(req.body)]>>, <<>>)
    /\ UNCHANGED <<appVars, askVars, viewVars, bookingsHandler>>

\* handler(req, res) up to its first return or await.
InsightsHandler(req, env) ==
    /\ insightsHandler = NotInvoked
    /\ insightsHandler' =
          IF req.method # "POST"
          THEN Invocation("insights", req, env, "done", <<>>,
                          <<TextReply(405, {<<"Allow", "POST">>}, "Method Not Allowed")>>)
          ELSE IF ~Configured(env, "GEMINI_API_KEY")
          THEN Invocation("insights", req, env, "done", <<>>,
                          <<JsonReply(500, {},
                               ErrorObject("Gemini API key is not configured on the server."))>>)
          ELSE Invocation("insights", req, env, "fetch",
                          <<[method |-> "POST", body |-> JsonStringify(req.body)]>>, <<>>)
    /\ UNCHANGED <<appVars, askVars, viewVars, bookingsHandler>>

\* await fetch(apiUrl, ...) settles.
InsightsFetchSettles(outcome) ==
    /\ insightsHandler.pc = "fetch"
    /\ insightsHandler' =
          IF outcome.kind = "rejects"
          THEN Catch(insightsHandler, "fetch failed")
          ELSE [insightsHandler EXCEPT !.pc = "json", !.response = outcome]
    /\ UNCHANGED <<appVars, askVars, viewVars, bookingsHandler>>

\* await geminiResponse.json() settles; the rest of the try block.
InsightsJsonSettles ==
    /\ insightsHandler.pc = "json"
    /\ LET h == insightsHandler
           parsed == ReadJson(h.response)
       IN  insightsHandler' =
              IF ~parsed.ok THEN Catch(h, parsed.message)
              ELSE IF ~Ok(h.response)
              THEN IF parsed.value = JsonNull
                   THEN Catch(h, "Cannot read properties of null (reading 'error')")
                   ELSE IF ErrorDotMessage(parsed.value) # ""
                   THEN Catch(h, ErrorDotMessage(parsed.value))
                   ELSE Catch(h, "Failed to get a valid response from the Gemini API.")
              ELSE [h EXCEPT !.pc = "done",
                             !.responses = Append(@, JsonReply(200, {}, parsed.value))]
    /\ UNCHANGED <<appVars, askVars, viewVars, bookingsHandler>>

NextInsightsProxy ==
    \/ \E req \in InsightsRequests, env \in Envs("GEMINI_API_KEY") : InsightsHandler(req, env)
    \/ \E outcome \in GeminiOutcomes : InsightsFetchSettles(outcome)
    \/ InsightsJsonSettles

SpecInsightsProxy == InitProxy /\ [][NextInsightsProxy]_vars

\* ------------------------------------------------------------------------
\* /api/bookings, in its two versions: "api" is src/api/bookings.js, "first"
\* the handler at the head of src/bookings.js, which has no key check
\* ------------------------------------------------------------------------

Variants == {"api", "first"}

LodgifyOutcomes ==
    FetchOutcomes({LodgifyEmpty, LodgifyEmptySpaced, LodgifyUnauthorized, BadGateway, ""})

\* The value sent as X-ApiKey: an unset variable goes out as 'undefined'.
HeaderValue(env, name) == IF name \in DOMAIN env THEN env[name] ELSE "undefined"

\* handler(req, res) up to its first return or await.
BookingsHandler(variant, env) ==
    /\ bookingsHandler = NotInvoked
    /\ bookingsHandler' =
          IF variant = "api" /\ ~Configured(env, "LODGIFY_API_KEY")
          THEN Invocation(variant, [method |-> "GET", body |-> Undefined], env, "done", <<>>,
                          <<JsonReply(500, {},
                               ErrorObject("API key is not configured on the server."))>>)
          ELSE Invocation(variant, [method |-> "GET", body |-> Undefined], env, "fetch",
                          <<[method |-> "GET", key |-> HeaderValue(env, "LODGIFY_API_KEY")]>>,
                          <<>>)
    /\ UNCHANGED <<appVars, askVars, viewVars, insightsHandler>>

\* The handler passing any upstream response on to response.json().
BookingsFetchSettlesIgnoringStatus(outcome) ==
    /\ bookingsHandler.pc = "fetch"
    /\ bookingsHandler' =
          IF outcome.kind = "rejects"
          THEN Catch(bookingsHandler, "fetch failed")
          ELSE [bookingsHandler EXCEPT !.pc = "json", !.response = outcome]
    /\ UNCHANGED <<appVars, askVars, viewVars, insightsHandler>>

\* await fetch(LODGIFY_API_URL, ...) settles; if (!response.ok) starts.
BookingsFetchSettles(outcome) ==
    /\ bookingsHandler.pc = "fetch"
    /\ bookingsHandler' =
          IF outcome.kind = "rejects"
          THEN Catch(bookingsHandler, "fetch failed")
          ELSE IF Ok(outcome)
          THEN [bookingsHandler EXCEPT !.pc = "json", !.response = outcome]
          ELSE IF bookingsHandler.variant = "api"
          THEN [bookingsHandler EXCEPT !.pc = "text", !.response = outcome]
          ELSE Catch([bookingsHandler EXCEPT !.response = outcome],
                     "Lodgify API Error: " \o ToString(outcome.status))
    /\ UNCHANGED <<appVars, askVars, viewVars, insightsHandler>>

\* await response.text() settles, in src/api/bookings.js only.
BookingsTextSettles ==
    /\ bookingsHandler.pc = "text"
    /\ LET h == bookingsHandler
       IN  bookingsHandler' =
              IF ~h.response.readable THEN Catch(h, "terminated")
              ELSE Catch(h, "Lodgify API Error: " \o ToString(h.response.status)
                                \o " - " \o h.response.body)
    /\ UNCHANGED <<appVars, askVars, viewVars, insightsHandler>>

\* await response.json() settles; the rest of the try block.
BookingsJsonSettles ==
    /\ bookingsHandler.pc = "json"
    /\ LET h == bookingsHandler
           parsed == ReadJson(h.response)
           headers == IF h.variant = "first"
                      THEN {<<"Access-Control-Allow-Origin", "*">>} ELSE {}
       IN  bookingsHandler' =
              IF ~parsed.ok THEN Catch(h, parsed.message)
              ELSE [h EXCEPT !.pc = "done",
                             !.responses = Append(@, JsonReply(200, headers, parsed.value))]
    /\ UNCHANGED <<appVars, askVars, viewVars, insightsHandler>>

NextBookingsProxy ==
    \/ \E variant \in Variants, env \in Envs("LODGIFY_API_KEY") : BookingsHandler(variant, env)
    \/ \E outcome \in LodgifyOutcomes : BookingsFetchSettles(outcome)
    \/ BookingsTextSettles
    \/ BookingsJsonSettles

SpecBookingsProxy == InitProxy /\ [][NextBookingsProxy]_vars

\* ------------------------------------------------------------------------
\* Ask a question: handleAskAI
\* ------------------------------------------------------------------------

\* Texts typed into the question field.
Questions == {"", "   ", "How many bookings?", " How many bookings? "}

\* String.prototype.trim on the texts with outer white space.
Trim(text) ==
    IF text = "   " THEN ""
    ELSE IF text = " How many bookings? " THEN "How many bookings?"
    ELSE text

\* The dashboard view with the question form is rendered.
ShowsForm == activeView = "dashboard" /\ ~(isLoading /\ Len(allBookings) = 0)

\* onChange of the question field: setUserQuestion(e.target.value)
SetUserQuestion(value) ==
    /\ ShowsForm
    /\ value # userQuestion
    /\ userQuestion' = value
    /\ UNCHANGED <<appVars, viewVars, handlerVars>>
    /\ UNCHANGED <<isGeneratingInsights, insights, insightsError, askPending>>

\* handleAskAI without the check of the filtered set.
HandleAskAISendsEmptyData ==
    /\ ShowsForm
    /\ ~isGeneratingInsights
    /\ IF Trim(userQuestion) = ""
       THEN /\ insightsError' = <<"Please enter a question.">>
            /\ UNCHANGED <<isGeneratingInsights, insights, userQuestion, askPending>>
       ELSE /\ isGeneratingInsights' = TRUE
            /\ insights' = ""
            /\ insightsError' = Null
            /\ askPending' = askPending + 1
            /\ UNCHANGED userQuestion
    /\ UNCHANGED <<appVars, viewVars, handlerVars>>

\* onSubmit of the form, whose button is disabled while an answer is
\* generated: handleAskAI up to its first return or await.
HandleAskAI ==
    /\ ShowsForm
    /\ ~isGeneratingInsights
    /\ IF Trim(userQuestion) = ""
       THEN /\ insightsError' = <<"Please enter a question.">>
            /\ UNCHANGED <<isGeneratingInsights, insights, userQuestion, askPending>>
       ELSE IF Len(processedData.filteredBookings) = 0
       THEN /\ insightsError'
                 = <<"No booking data available in the selected date range to analyze.">>
            /\ UNCHANGED <<isGeneratingInsights, insights, userQuestion, askPending>>
       ELSE /\ isGeneratingInsights' = TRUE
            /\ insights' = ""
            /\ insightsError' = Null
            /\ askPending' = askPending + 1
            /\ UNCHANGED userQuestion
    /\ UNCHANGED <<appVars, viewVars, handlerVars>>

\* What the awaited fetch('/api/generate-insights') can do.
AskOutcomes ==
    FetchOutcomes({GeminiAnswer, GeminiNoCandidates, GeminiError, LodgifyUnauthorized,
                   "null", "Method Not Allowed"})

\* result.candidates?.[0]?.content?.parts?.[0]?.text of a parsed value other
\* than null; "" where it is undefined.
CandidateText(value) ==
    IF value = Document(GeminiAnswer) THEN "Two bookings." ELSE ""

\* The message of the error that ends the try block, "" if none does.
AskFailure(outcome) ==
    LET parsed == ReadJson(outcome)
    IN  IF outcome.kind = "rejects" THEN "Failed to fetch"
        ELSE IF ~parsed.ok THEN parsed.message
        ELSE IF ~Ok(outcome)
        THEN IF parsed.value = JsonNull
             THEN "Cannot read properties of null (reading 'error')"
             ELSE IF parsed.value[1] = "error" /\ parsed.value[2] # "" THEN parsed.value[2]
             ELSE IF parsed.value = Document(GeminiError) THEN "[object Object]"
             ELSE "Insights API error: " \o ToString(outcome.status)
        ELSE IF parsed.value = JsonNull
        THEN "Cannot read properties of null (reading 'candidates')"
        ELSE IF CandidateText(parsed.value) = ""
        THEN "Received an empty response from the AI."
        ELSE ""

\* The call resuming without finally's setUserQuestion('').
AskSettlesKeepsQuestion(outcome) ==
    /\ askPending > 0
    /\ askPending' = askPending - 1
    /\ IF AskFailure(outcome) = ""
       THEN /\ insights' = CandidateText(ReadJson(outcome).value)
            /\ UNCHANGED insightsError
       ELSE /\ insightsError' = <<"Failed to get an answer. ", AskFailure(outcome)>>
            /\ UNCHANGED insights
    /\ isGeneratingInsights' = FALSE
    /\ UNCHANGED userQuestion
    /\ UNCHANGED <<appVars, viewVars, handlerVars>>

\* The awaited fetch settles and handleAskAI runs to its end: the rest of
\* the try block (its second await changes no state), catch and finally.
AskSettles(outcome) ==
    /\ askPending > 0
    /\ askPending' = askPending - 1
    /\ IF AskFailure(outcome) = ""
       THEN /\ insights' = CandidateText(ReadJson(outcome).value)
            /\ UNCHANGED insightsError
       ELSE /\ insightsError' = <<"Failed to get an answer. ", AskFailure(outcome)>>
            /\ UNCHANGED insights
    /\ isGeneratingInsights' = FALSE
    /\ userQuestion' = ""
    /\ UNCHANGED <<appVars, viewVars, handlerVars>>

NextAsk ==
    \/ \E runs \in 1..2 : MountEffect(runs)
    \/ Refresh
    \/ FetchSucceeds
    \/ \E message \in ErrorMessages : FetchFails(message)
    \/ \E value \in StartDateInputs : SetStartDate(value)
    \/ \E value \in EndDateInputs : SetEndDate(value)
    \/ \E value \in Questions : SetUserQuestion(value)
    \/ HandleAskAI
    \/ \E outcome \in AskOutcomes : AskSettles(outcome)

\* The upstream holds no booking or the first sample booking.
InitAsk ==
    /\ Init
    /\ tz = 0
    /\ data \in {[count |-> 0], [count |-> 1, items |-> <<MOCK_BOOKINGS[1]>>]}

SpecAsk == InitAsk /\ [][NextAsk]_vars

\* The browser settles every fetch, with a response or with a rejection,
\* and the continuation of handleAskAI then runs.
SpecAskFair == SpecAsk /\ WF_vars(\E outcome \in AskOutcomes : AskSettles(outcome))

\* ------------------------------------------------------------------------
\* Helpers of the properties
\* ------------------------------------------------------------------------

Zero == Whole(0)

\* The filtered set and its confirmedSet part, as the current render holds them.
filteredSet == processedData.filteredBookings

confirmedSet == SelectSeq(filteredSet, LAMBDA b : b.status = "Booked")

Positions(seq, P(_)) == {i \in 1..Len(seq) : P(seq[i])}

RECURSIVE IntSum(_, _)
\* The sum of the integers f[i] over i in S.
IntSum(f, S) ==
    IF S = {} THEN 0
    ELSE LET i == CHOOSE j \in S : TRUE IN f[i] + IntSum(f, S \ {i})

Permute(seq, p) == [i \in 1..Len(seq) |-> seq[p[i]]]

\* The amount of a record as an integer, 0 when it carries none.
PlainAmount(b) == IF "total_amount" \in DOMAIN b THEN b.total_amount.n ELSE 0

\* The time value of a parseable date string, in hours.
Hours(str) == DayNumber(str.y, str.m, str.d) * DayLength + str.h

Parses(str) == str.form \in {"date", "utc"}

\* ------------------------------------------------------------------------
\* Properties
\* ------------------------------------------------------------------------

InRange(b) ==
    /\ startDate.form # "empty" =>
          Parses(b.arrival) /\ Hours(b.arrival) >= Hours(startDate)
    /\ endDate.form # "empty" =>
          Parses(b.arrival) /\ Hours(b.arrival) <= Hours(endDate)

\* C2: the filtered set is, in input order, exactly the bookings whose
\* arrival satisfies the bounds that are given (both ends inclusive; all
\* bookings when no bound is given).
C2_FilterKeepsExactlyInRange ==
    LET kept == Positions(allBookings, InRange)
        \* the k-th smallest kept position
        nth(k) == CHOOSE i \in kept : Cardinality({j \in kept : j < i}) = k - 1
    IN  /\ Len(filteredSet) = Cardinality(kept)
        /\ \A k \in 1..Len(filteredSet) : filteredSet[k] = allBookings[nth(k)]

\* Both bounds are set, a booking arriving exactly on the start date is
\* kept and another booking is dropped.
C2_Witness ==
    /\ startDate.form # "empty"
    /\ endDate.form # "empty"
    /\ \E i \in 1..Len(filteredSet) : filteredSet[i].arrival = startDate
    /\ Len(filteredSet) < Len(allBookings)

\* C3: cancellationRate is 100 * cancelled / all filteredSet records (0 for an
\* empty filteredSet set), lies in [0, 100], and a lone cancelled booking gives
\* 100 with totalBookings 0 and avgBookingValue 0.
C3_CancellationRate ==
    LET cancelledCount == Cardinality(Positions(filteredSet, LAMBDA b : b.status = "Cancelled"))
        rate == processedData.cancellationRate
    IN  /\ rate = IF Len(filteredSet) = 0 THEN Zero
                  ELSE Num(100 * cancelledCount, Len(filteredSet))
        /\ rate.d > 0 /\ 0 <= rate.n /\ rate.n <= 100 * rate.d
        /\ (Len(filteredSet) = 1 /\ filteredSet[1].status = "Cancelled") =>
              /\ rate = Whole(100)
              /\ processedData.totalBookings = Zero
              /\ processedData.avgBookingValue = Zero

\* The filtered set holds a cancelled record and a record that is neither
\* confirmedSet nor cancelled.
C3_Witness ==
    /\ \E i \in 1..Len(filteredSet) : filteredSet[i].status = "Cancelled"
    /\ \E i \in 1..Len(filteredSet) : filteredSet[i].status \notin {"Booked", "Cancelled"}
    /\ processedData.cancellationRate = Whole(50)

\* C4: an empty filteredSet set gives 0 for every scalar and two empty series.
C4_EmptyGivesZeros ==
    Len(filteredSet) = 0 =>
        /\ processedData.totalRevenue = Zero
        /\ processedData.totalBookings = Zero
        /\ processedData.totalNights = Zero
        /\ processedData.avgBookingValue = Zero
        /\ processedData.avgNightlyRate = Zero
        /\ processedData.avgLengthOfStay = Zero
        /\ processedData.avgLeadTime = Zero
        /\ processedData.cancellationRate = Zero
        /\ processedData.bookingsByMonth = <<>>
        /\ processedData.revenueByChannel = <<>>

\* The upstream answered with no bookings and the result was aggregated.
C4_Witness ==
    /\ mounted /\ ~isLoading /\ error = Null
    /\ allBookings = <<>>
    /\ Len(filteredSet) = 0

\* q is the quotient a / b of two finite numbers, b not 0.
IsQuotient(q, a, b) == q.d > 0 /\ q.n * b.n * a.d = a.n * q.d * b.d

\* C5: avgBookingValue and avgLengthOfStay are totalRevenue / totalBookings
\* and totalNights / totalBookings when totalBookings > 0, avgNightlyRate is
\* totalRevenue / totalNights when totalNights > 0, and each is 0 otherwise.
C5_AveragesFallBackToZero ==
    LET pd == processedData
    IN  /\ IF pd.totalBookings.n > 0
           THEN /\ IsQuotient(pd.avgBookingValue, pd.totalRevenue, pd.totalBookings)
                /\ IsQuotient(pd.avgLengthOfStay, pd.totalNights, pd.totalBookings)
           ELSE pd.avgBookingValue = Zero /\ pd.avgLengthOfStay = Zero
        /\ IF pd.totalNights.d > 0 /\ pd.totalNights.n > 0
           THEN IsQuotient(pd.avgNightlyRate, pd.totalRevenue, pd.totalNights)
           ELSE pd.avgNightlyRate = Zero

\* Confirmed bookings with revenue exist although totalNights is negative.
C5_Witness ==
    /\ processedData.totalBookings.n > 0
    /\ processedData.totalRevenue.n > 0
    /\ processedData.totalNights.n < 0
    /\ processedData.avgNightlyRate = Zero

\* The calendar months (0..11) in which confirmedSet bookings arrive.
ArrivalMonths ==
    {m \in 0..11 : \E i \in 1..Len(confirmedSet) :
        Parses(confirmedSet[i].arrival) /\ confirmedSet[i].arrival.m - 1 = m}

\* C6: bookingsByMonth has exactly one entry per month with a confirmedSet
\* arrival and no other entry, each counting the confirmedSet arrivals of its
\* month, in strictly ascending monthIndex order.  Stated for filteredSet sets
\* whose confirmedSet arrivals are all well-formed calendar dates.
C6_MonthlySeries ==
    (\A i \in 1..Len(confirmedSet) : Parses(confirmedSet[i].arrival)) =>
    LET series == processedData.bookingsByMonth
        arrivals(m) == Cardinality({i \in 1..Len(confirmedSet) :
                          Parses(confirmedSet[i].arrival) /\ confirmedSet[i].arrival.m - 1 = m})
    IN  /\ Len(series) = Cardinality(ArrivalMonths)
        /\ \A k \in 1..Len(series) :
              /\ series[k].monthIndex \in {Whole(m) : m \in ArrivalMonths}
              /\ series[k].bookings = Whole(arrivals(series[k].monthIndex.n))
        /\ \A k \in 1..(Len(series) - 1) :
              NumGT(series[k + 1].monthIndex, series[k].monthIndex)

\* The channel label of a record.
Label(b) == IF "source" \in DOMAIN b /\ b.source # "" THEN b.source ELSE "Unknown"

RECURSIVE FirstSeen(_, _)
\* The distinct labels of the first k confirmedSet records, in first-seen order.
FirstSeen(seq, k) ==
    IF k = 0 THEN <<>>
    ELSE LET earlier == FirstSeen(seq, k - 1)
         IN  IF \E i \in 1..Len(earlier) : earlier[i] = Label(seq[k]) THEN earlier
             ELSE Append(earlier, Label(seq[k]))

\* C7: revenueByChannel has one entry per distinct source of the confirmedSet
\* bookings ('Unknown' for a missing source), carrying the sum of their
\* amounts, in the order in which the sources were first seen.
C7_ChannelSeries ==
    LET labels == FirstSeen(confirmedSet, Len(confirmedSet))
        revenue(l) == IntSum([i \in 1..Len(confirmedSet) |-> PlainAmount(confirmedSet[i])],
                             Positions(confirmedSet, LAMBDA b : Label(b) = l))
    IN  processedData.revenueByChannel =
            [k \in 1..Len(labels) |->
                [name |-> labels[k], revenue |-> Whole(revenue(labels[k]))]]

\* The lead time of a record in hours, floored at 0; 0 without a creation
\* date or when a date does not parse.
FlooredLeadHours(b) ==
    IF "creation_date" \in DOMAIN b /\ Parses(b.creation_date) /\ Parses(b.arrival)
    THEN (IF Hours(b.arrival) > Hours(b.creation_date)
          THEN Hours(b.arrival) - Hours(b.creation_date) ELSE 0)
    ELSE 0

\* C8: avgLeadTime is the sum of the floored lead times of the confirmedSet
\* bookings that have a creation date, divided by the number of ALL
\* confirmedSet bookings, and 0 when there is none.
C8_AvgLeadTime ==
    LET leadHours == IntSum([i \in 1..Len(confirmedSet) |-> FlooredLeadHours(confirmedSet[i])],
                            1..Len(confirmedSet))
    IN  processedData.avgLeadTime =
            IF Len(confirmedSet) > 0 THEN Num(leadHours, DayLength * Len(confirmedSet))
            ELSE Zero

\* A confirmedSet booking without a creation date dilutes the positive lead
\* time of another one.
C8_Witness ==
    /\ \E i \in 1..Len(confirmedSet) :
          "creation_date" \notin DOMAIN confirmedSet[i] \/ ~Parses(confirmedSet[i].creation_date)
    /\ \E i \in 1..Len(confirmedSet) : FlooredLeadHours(confirmedSet[i]) > 0
    /\ processedData.avgLeadTime.n > 0

\* The stay of a record in hours, negative when the departure precedes the
\* arrival; 0 when a date does not parse.
StayHours(b) ==
    IF Parses(b.arrival) /\ Parses(b.departure)
    THEN Hours(b.departure) - Hours(b.arrival) ELSE 0

\* The two bookings of the specification's example, by the fields the KPIs read.
IsExample ==
    /\ Len(filteredSet) = 2
    /\ filteredSet[1].arrival = DateOnly(2024, 1, 15)
    /\ filteredSet[1].departure = DateOnly(2024, 1, 20)
    /\ filteredSet[2].arrival = DateOnly(2024, 2, 10)
    /\ filteredSet[2].departure = DateOnly(2024, 2, 15)
    /\ \A i \in 1..2 : filteredSet[i].status = "Booked" /\ "total_amount" \in DOMAIN filteredSet[i]
    /\ filteredSet[1].total_amount = Whole(500)
    /\ filteredSet[2].total_amount = Whole(650)

\* C9: totalNights is the unclamped sum of departure - arrival in days over
\* the confirmedSet bookings, and the two-booking example gives totalNights 10,
\* totalRevenue 1150 and avgNightlyRate 115.
C9_TotalNights ==
    /\ processedData.totalNights =
          Num(IntSum([i \in 1..Len(confirmedSet) |-> StayHours(confirmedSet[i])],
                     1..Len(confirmedSet)),
              DayLength)
    /\ IsExample =>
          /\ processedData.totalNights = Whole(10)
          /\ processedData.totalRevenue = Whole(1150)
          /\ processedData.totalBookings = Whole(2)
          /\ processedData.avgNightlyRate = Whole(115)

\* A confirmedSet booking that departs before it arrives lowers the total of
\* another confirmedSet booking.
C9_Witness ==
    /\ \E i \in 1..Len(confirmedSet) : StayHours(confirmedSet[i]) < 0
    /\ \E i \in 1..Len(confirmedSet) : StayHours(confirmedSet[i]) > 0
    /\ processedData.totalNights = Whole(3)

\* C10: filtering the filtered set again with the same bounds returns it
\* unchanged.
C10_FilterIdempotent ==
    FilteredBookings(filteredSet, startDate, endDate) = filteredSet

\* A bound is set, the filter kept several bookings and dropped others.
C10_Witness ==
    /\ startDate.form # "empty" \/ endDate.form # "empty"
    /\ Len(filteredSet) >= 2
    /\ Len(filteredSet) < Len(allBookings)

\* C11 as claimed: no booking with an unparseable arrival is ever in the
\* filtered set.
C11_MalformedNeverFiltered ==
    \A i \in 1..Len(filteredSet) : Parses(filteredSet[i].arrival)

\* C11 as amended: whenever a start or an end date is set, no booking with
\* an unparseable arrival is in the filtered set; with no bound set the
\* filter keeps it.
C11_MalformedExcludedUnderBound ==
    /\ (startDate.form # "empty" \/ endDate.form # "empty") =>
          \A i \in 1..Len(filteredSet) : Parses(filteredSet[i].arrival)
    /\ (startDate.form = "empty" /\ endDate.form = "empty") =>
          \A i \in 1..Len(allBookings) :
              ~Parses(allBookings[i].arrival) =>
                  \E k \in 1..Len(filteredSet) : filteredSet[k] = allBookings[i]

\* A bound is set and the filter dropped a booking with an unparseable
\* arrival while keeping another booking.
C11_Witness ==
    /\ startDate.form # "empty" \/ endDate.form # "empty"
    /\ \E i \in 1..Len(allBookings) : ~Parses(allBookings[i].arrival)
    /\ Len(filteredSet) >= 1
    /\ \A i \in 1..Len(filteredSet) : Parses(filteredSet[i].arrival)

\* The calendar day of a parseable date string, whatever its time of day.
CalendarDay(str) == DayNumber(str.y, str.m, str.d)

\* C12: the filter compares calendar dates: a booking that arrives on the
\* calendar day of a bound, and on or inside the other bound's day, is kept
\* whatever time of day its arrival carries.
C12_FilterComparesCalendarDates ==
    \A i \in 1..Len(allBookings) :
        LET a == allBookings[i].arrival
        IN  ( /\ Parses(a)
              /\ \/ startDate.form # "empty" /\ CalendarDay(a) = CalendarDay(startDate)
                 \/ endDate.form # "empty" /\ CalendarDay(a) = CalendarDay(endDate)
              /\ startDate.form # "empty" => CalendarDay(a) >= CalendarDay(startDate)
              /\ endDate.form # "empty" => CalendarDay(a) <= CalendarDay(endDate) )
            => \E k \in 1..Len(filteredSet) : filteredSet[k] = allBookings[i]

\* C13: a fetchBookings call that resumes with a failure (fetch threw, or a
\* non-2xx answer) ends with an error text that contains the failure's
\* message, the sample dataset as booking list and isLoading false.
C13_FailureShowsSampleData ==
    [][ (pending' = pending - 1 /\ lastResponse'.kind = "failed") =>
            /\ error' # Null
            /\ \E i \in 1..Len(error') : error'[i] = lastResponse'.text
            /\ allBookings' = MOCK_BOOKINGS
            /\ isLoading' = FALSE ]_vars

\* The only call failed and the dashboard shows the aggregated sample data.
C13_Witness ==
    /\ lastResponse.kind = "failed"
    /\ pending = 0
    /\ error = DetailedError(lastResponse.text)
    /\ allBookings = MOCK_BOOKINGS
    /\ ~isLoading
    /\ processedData.totalBookings = Whole(3)

\* C20: whenever no fetchBookings call is in flight, a warning implies that
\* the booking list is the sample dataset, and no warning implies that the
\* list is the one of the successful response.
C20_WarningMatchesList ==
    (mounted /\ pending = 0) =>
        /\ error # Null => allBookings = MOCK_BOOKINGS
        /\ error = Null => allBookings = ItemsOrEmpty(data)

\* C16: filtering, aggregation and the table's sort leave their input as it
\* was: only a resuming fetchBookings call replaces allBookings, and as long
\* as allBookings and the bounds stay the same, the filtered set that was
\* aggregated keeps its elements, their order and their field values.
C16_InputsAreNotMutated ==
    [][ /\ pending' >= pending => allBookings' = allBookings
        /\ (allBookings' = allBookings /\ startDate' = startDate /\ endDate' = endDate) =>
              processedData'.filteredBookings = processedData.filteredBookings
        /\ processedData'.filteredBookings
              = FilteredBookings(allBookings', startDate', endDate') ]_vars

\* The bookings table shows two rows in another order than the filtered
\* set, which still has the order of allBookings.
C16_Witness ==
    /\ activeView = "bookings"
    /\ Len(tableRows) = 2
    /\ tableRows # filteredSet
    /\ filteredSet = allBookings

\* Is the reply's body a JSON object of the form { error: string }?
IsErrorReply(reply) ==
    /\ <<"Content-Type", "application/json">> \in reply.headers
    /\ reply.body[1] = "error"

Replies(h) == IF h = NotInvoked THEN <<>> ELSE h.responses
Fetched(h) == IF h = NotInvoked THEN <<>> ELSE h.fetched

\* C14: every reply of the insights handler with a status outside 200..299
\* has a JSON body of the form { error: string }.
C14_InsightsErrorsAreJson ==
    \A i \in 1..Len(Replies(insightsHandler)) :
        Replies(insightsHandler)[i].status \notin 200..299 =>
            IsErrorReply(Replies(insightsHandler)[i])

\* C17: the insights handler calls the Gemini API only for a POST with a
\* configured GEMINI_API_KEY; any other method gets exactly one reply, 405
\* with Allow: POST, and a POST without the key exactly one reply, 500,
\* both without an upstream call.
C17_UpstreamOnlyForPostWithKey ==
    insightsHandler # NotInvoked =>
        LET h == insightsHandler
            keyed == Configured(h.env, "GEMINI_API_KEY")
        IN  /\ Len(h.fetched) >= 1 => (h.req.method = "POST" /\ keyed)
            /\ h.req.method # "POST" =>
                  /\ h.fetched = <<>>
                  /\ Len(h.responses) = 1
                  /\ h.responses[1].status = 405
                  /\ <<"Allow", "POST">> \in h.responses[1].headers
            /\ (h.req.method = "POST" /\ ~keyed) =>
                  /\ h.fetched = <<>>
                  /\ Len(h.responses) = 1
                  /\ h.responses[1].status = 500

\* A POST that arrived while GEMINI_API_KEY was the empty string was
\* answered 500 with no upstream call.
C17_Witness ==
    /\ insightsHandler # NotInvoked
    /\ insightsHandler.req.method = "POST"
    /\ insightsHandler.env = EnvWith("GEMINI_API_KEY", "")
    /\ insightsHandler.pc = "done"
    /\ insightsHandler.fetched = <<>>
    /\ Len(insightsHandler.responses) = 1
    /\ insightsHandler.responses[1].status = 500

\* C15: every reply of the bookings handler with a status outside 200..299
\* has status 500 and a JSON body { error: string }; a reply in 200..299 has
\* status 200, is sent only after the upstream answered OK with a readable
\* JSON body, and carries the value of that body.  There is at most one
\* reply, and exactly one once the handler is done.
C15_BookingsProxyReplies ==
    LET h == bookingsHandler
        replies == Replies(h)
    IN  /\ Len(replies) <= 1
        /\ (h # NotInvoked /\ h.pc = "done") => Len(replies) = 1
        /\ \A i \in 1..Len(replies) :
              IF replies[i].status \in 200..299
              THEN /\ replies[i].status = 200
                   /\ h.response.kind = "response"
                   /\ Ok(h.response)
                   /\ h.response.readable
                   /\ h.response.body \in DOMAIN JsonValues
                   /\ replies[i].body = JsonValues[h.response.body]
                   /\ <<"Content-Type", "application/json">> \in replies[i].headers
              ELSE /\ replies[i].status = 500
                   /\ IsErrorReply(replies[i])

\* src/api/bookings.js has answered an upstream 401 with 500 and the
\* upstream text in the message.
C15_Witness ==
    /\ bookingsHandler # NotInvoked
    /\ bookingsHandler.variant = "api"
    /\ bookingsHandler.pc = "done"
    /\ bookingsHandler.response.status = 401
    /\ bookingsHandler.responses
          = <<JsonReply(500, {}, ErrorObject("Lodgify API Error: 401 - " \o LodgifyUnauthorized))>>

\* Does the validation of handleAskAI fail in the current state?
NoQuestion == Trim(userQuestion) = ""
NothingToAnalyze == Len(processedData.filteredBookings) = 0

\* C18: handleAskAI sends a request only when the trimmed question is not
\* empty and the filtered set is not empty; a submission that fails the
\* validation sets insightsError to the message of the failed check and
\* leaves isGeneratingInsights, insights, userQuestion and the number of
\* requests in flight as they were.
C18_NoRequestWhenValidationFails ==
    [][ /\ askPending' > askPending => (~NoQuestion /\ ~NothingToAnalyze)
        /\ (insightsError' # insightsError /\ askPending' = askPending) =>
              /\ NoQuestion \/ NothingToAnalyze
              /\ insightsError' =
                    IF NoQuestion THEN <<"Please enter a question.">>
                    ELSE <<"No booking data available in the selected date range to analyze.">>
              /\ UNCHANGED <<isGeneratingInsights, insights, userQuestion>> ]_vars

\* A question was submitted while the filtered set was empty: the message
\* is shown, the question is still in the field and nothing is in flight.
C18_Witness ==
    /\ insightsError = <<"No booking data available in the selected date range to analyze.">>
    /\ userQuestion = " How many bookings? "
    /\ NothingToAnalyze
    /\ ~isGeneratingInsights
    /\ askPending = 0
    /\ insights = ""

\* C19: every accepted submission is followed by a state with
\* isGeneratingInsights false and an empty question field, and the step that
\* ends it clears the field and leaves exactly one of insights and
\* insightsError set.
C19_AskAlwaysCompletes ==
    /\ isGeneratingInsights ~> (~isGeneratingInsights /\ userQuestion = "")
    /\ [][ (isGeneratingInsights /\ ~isGeneratingInsights') =>
              /\ userQuestion' = ""
              /\ (insights' # "") # (insightsError' # Null) ]_vars

\* A submission ended on a 2xx answer without candidate text.
C19_Witness ==
    /\ ~isGeneratingInsights
    /\ askPending = 0
    /\ userQuestion = ""
    /\ insights = ""
    /\ insightsError = <<"Failed to get an answer. ", "Received an empty response from the AI.">>

\* C21: isLoading is true whenever a fetchBookings call is in flight, and
\* false once every started call has completed.
C21_LoadingTracksCallsInFlight ==
    /\ pending > 0 => isLoading
    /\ (mounted /\ pending = 0) => ~isLoading

\* C22: insights and insightsError are never both non-empty: the panel
\* never shows an answer and an error message together.
C22_AnswerAndErrorExclusive ==
    ~(insights # "" /\ insightsError # Null)

====
